---- MODULE Spec2Model ----
(***************************************************************************)
(* Model of backend/main.py of the 10Q-Scraper service: the in-memory      *)
(* registries (sessions, rate_limit_storage, jobs), the HTTP handlers      *)
(* that read and write them, and the background worker thread              *)
(* process_job, one thread per admitted POST /api/generate.                *)
(*                                                                         *)
(* Granularity.  The handlers are `async def` coroutines without an await  *)
(* between their statements, so each handler runs atomically with respect  *)
(* to the other handlers: one action per handler.  The workers are         *)
(* threading.Thread objects: a thread switch may happen between any two    *)
(* statements of process_job, so every statement that writes the shared    *)
(* dict `jobs` and every call into the provider library is a step of its   *)
(* own, named after the line of main.py it models (pc = "L298" is the      *)
(* worker about to execute line 298).                                      *)
(*                                                                         *)
(* Clock.  time.time() and datetime.now(timezone.utc) read the same wall   *)
(* clock; `now` is that clock in seconds.                                  *)
(***************************************************************************)
EXTENDS Integers, Sequences, FiniteSets, TLC

VARIABLES
    now,                 \* the wall clock, in seconds
    sessions,            \* main.py:40   token -> expiry
    rate_limit_storage,  \* main.py:44   key -> list of timestamps
    jobs,                \* main.py:49   job id -> job dict
    pc,                  \* position of the worker thread of each job id
    loc,                 \* local variables of each worker thread
    next_job,            \* the next uuid4() job id (ids are never reused)
    next_token,          \* the next secrets.token_urlsafe() token
    edgar_identity,      \* the identity edgar.set_identity() stored last
    resp                 \* the HTTP response returned by the step, if any

vars == <<now, sessions, rate_limit_storage, jobs, pc, loc, next_job, next_token,
          edgar_identity, resp>>

----------------------------------------------------------------------------
(* Program constants *)

RATE_LIMIT_REQUESTS == 10
RATE_LIMIT_WINDOW == 60
SESSION_DURATION == 86400
JOB_EXPIRY == 3600
BATCH_SIZE == 5

(* Bounds of the model *)

MaxJobs == 2       \* job ids handed out by POST /api/generate in one run
MaxTokens == 1     \* session tokens handed out by POST /api/login in one run
MaxLogins == 1     \* login attempts a client makes inside one rate window
MaxNow == 3601     \* the clock stops here
MaxSessions == 2   \* session tokens handed out in a run of SessionSpec, AuthSpec
MaxSessionNow == 172801   \* the clock of SessionSpec and AuthSpec stops here
MaxRateNow == 120  \* the clock of RateSpec stops here
MaxRows == 4       \* rows of a statement table in LayoutSpec

JobIds == 1..MaxJobs
Tokens == 1..MaxTokens
NoToken == 0       \* request.cookies.get("session_token") returned None
UnknownJob == 0    \* a job id no uuid4() call ever returned

\* Clock advances the model explores: to the instant a job created now
\* expires at (now = expires_at), and one second past it (now > expires_at).
TickSteps == {JOB_EXPIRY, JOB_EXPIRY + 1}

\* Client addresses (get_client_ip) and request bodies (GenerateRequest).
Clients == {"10.0.0.1"}
Requests == { [name |-> "Ann", email |-> "ann@x.org", ticker |-> "aapl"] }
\* The login attempts explored: those with matching credentials.
Credentials == {TRUE}

\* What the provider can answer: the number of 10-Q filings found, and the
\* statement kinds one batch yields.
Kinds == {"bs", "is", "cf", "se"}
FilingCounts == {0, BATCH_SIZE + 1}
ExtractOutcomes == { {}, Kinds }
\* The number of rows (line items) a concatenated statement table has.
RowCounts == {3}

PyNone == "None"

----------------------------------------------------------------------------
(* Python dicts: a job is a dict whose keys appear as the worker writes them *)

Has(d, k) == k \in DOMAIN d
Get(d, k, dflt) == IF k \in DOMAIN d THEN d[k] ELSE dflt
SetKey(d, k, v) == [x \in DOMAIN d \cup {k} |-> IF x = k THEN v ELSE d[x]]
Without(f, S) == [x \in DOMAIN f \ S |-> f[x]]

\* str.upper() on the tickers of Requests
Upper(t) == CASE t = "aapl" -> "AAPL" [] OTHER -> t

NoResp == [op |-> "none"]

----------------------------------------------------------------------------
(* Rate limiting: check_rate_limit *)

LoginKey(ip) == "login_" \o ip
GenerateKey(ip) == "generate_" \o ip
RateKeys == {LoginKey(ip) : ip \in Clients} \cup {GenerateKey(ip) : ip \in Clients}

\* Pruned keeping the timestamps exactly one window old
PrunedLate(key) ==
    SelectSeq(rate_limit_storage[key], LAMBDA t : t >= now - RATE_LIMIT_WINDOW)

\* main.py:87-89: the timestamps of the key younger than now - window
Pruned(key) ==
    SelectSeq(rate_limit_storage[key], LAMBDA t : t > now - RATE_LIMIT_WINDOW)

\* check_rate_limit denying only past the limit
check_rate_limit_lax(key) == ~(Len(Pruned(key)) > RATE_LIMIT_REQUESTS)

\* main.py:91-95: the value check_rate_limit returns
check_rate_limit(key) == ~(Len(Pruned(key)) >= RATE_LIMIT_REQUESTS)

\* check_rate_limit recording the timestamp of a denied call as well
RateAfterStamped(key) ==
    [rate_limit_storage EXCEPT ![key] = Append(Pruned(key), now)]

\* rate_limit_storage after check_rate_limit(key)
RateAfter(key) ==
    [rate_limit_storage EXCEPT
        ![key] = IF check_rate_limit(key) THEN Append(Pruned(key), now) ELSE Pruned(key)]

----------------------------------------------------------------------------
(* Sessions: create_session, verify_session *)

\* verify_session taking a session for expired from the instant of its expiry
verify_session_strict(tok) ==
    /\ tok # NoToken
    /\ tok \in DOMAIN sessions
    /\ now < sessions[tok]

\* main.py:120-134: the value verify_session returns
verify_session(tok) ==
    /\ tok # NoToken
    /\ tok \in DOMAIN sessions
    /\ ~(now > sessions[tok])

\* verify_session refreshing the expiry of a session it finds valid
SessionsAfterVerifySliding(tok) ==
    IF tok # NoToken /\ tok \in DOMAIN sessions
    THEN IF now > sessions[tok]
         THEN Without(sessions, {tok})
         ELSE SetKey(sessions, tok, now + SESSION_DURATION)
    ELSE sessions

\* main.py:129-132: sessions after verify_session(tok)
SessionsAfterVerify(tok) ==
    IF tok # NoToken /\ tok \in DOMAIN sessions /\ now > sessions[tok]
    THEN Without(sessions, {tok})
    ELSE sessions

\* main.py:113-117: sessions after create_session() returned the token tok
create_session(tok) == SetKey(sessions, tok, now + SESSION_DURATION)

----------------------------------------------------------------------------
(* Job registry *)

\* cleanup_expired_jobs deleting a job from the instant of its expiry
expired_from_expiry == {id \in DOMAIN jobs : now >= Get(jobs[id], "expires_at", now)}

\* main.py:311-319: the ids cleanup_expired_jobs deletes
expired == {id \in DOMAIN jobs : now > Get(jobs[id], "expires_at", now)}

\* main.py:409-415: the dict POST /api/generate stores
NewJob(d) ==
    [status |-> "pending",
     message |-> "Starting job...",
     created_at |-> now,
     expires_at |-> now + JOB_EXPIRY,
     ticker |-> Upper(d.ticker)]

\* The local variables of a worker thread: its arguments (main.py:162) and
\* the names process_job binds as it runs.
NoLoc == [name |-> "", email |-> "", ticker |-> "", total_filings |-> 0,
          num_batches |-> 0, batch_idx |-> 0, start_idx |-> 0, end_idx |-> 0,
          batch_log |-> [parsed |-> TRUE, errors |-> {}],
          dfs |-> [k \in Kinds |-> <<>>], output |-> [k \in Kinds |-> <<>>],
          rows |-> [k \in Kinds |-> 0], startrow |-> [k \in Kinds |-> 0],
          sheet |-> [k \in Kinds |-> {}]]
StartLoc(d) == [NoLoc EXCEPT !.name = d.name, !.email = d.email, !.ticker = d.ticker]

\* main.py:169: identity = f"{name} {email}"
Identity(name, email) == name \o " " \o email

\* The messages process_job writes (f-strings)
MsgFetchCompany(t) == "Fetching company data for " \o t \o "..."
ErrInvalidTicker(t) ==
    "Invalid company ticker: " \o t \o ". Please check the ticker symbol and try again."
ErrNoFilings(t) == "No 10-Q filings found for " \o t \o " since 2010."
\* main.py:206-207: the slice all_filings[start_idx:end_idx] of batch idx
StartIdx(idx) == idx * BATCH_SIZE
\* end_idx without the min of main.py:207
EndIdxUnclipped(idx, total) == StartIdx(idx) + BATCH_SIZE
EndIdx(idx, total) ==
    IF StartIdx(idx) + BATCH_SIZE < total THEN StartIdx(idx) + BATCH_SIZE ELSE total

\* The progress message numbering the batches from 0
MsgBatchFromZero(idx, nb, total) ==
    "Processing batch " \o ToString(idx) \o "/" \o ToString(nb) \o " ("
       \o ToString(StartIdx(idx) + 1) \o "-" \o ToString(EndIdx(idx, total)) \o " of "
       \o ToString(total) \o " filings)..."

\* main.py:210: the progress message of batch idx (counted from 0) of nb
MsgBatch(idx, nb, total) ==
    LET start_idx == StartIdx(idx)
        end_idx == EndIdx(idx, total)
    IN "Processing batch " \o ToString(idx + 1) \o "/" \o ToString(nb) \o " ("
       \o ToString(start_idx + 1) \o "-" \o ToString(end_idx) \o " of "
       \o ToString(total) \o " filings)..."
MsgReady(total) == "Report ready! Processed " \o ToString(total) \o " filings."
FileName(t) == Upper(t) \o "_10Q_Financials.xlsx"
ErrUnexpected == "An unexpected error occurred: <str(e)>"

----------------------------------------------------------------------------
(* The worker thread: process_job(job_id, name, email, ticker)             *)

\* The thread ends: by return, or (how == "crashed") by an exception that
\* left process_job.  Its local variables go with it.
Finish(j, how) ==
    /\ pc' = [pc EXCEPT ![j] = how]
    /\ loc' = [loc EXCEPT ![j] = NoLoc]

\* jobs[job_id][key] = val, by the worker at `from`, which goes on at `to`.
\* When job_id is no longer a key of jobs the subscription raises KeyError;
\* every such statement is inside the try of main.py:164, whose handler
\* (main.py:304-308) starts with jobs[job_id]["status"] = "error", which
\* raises KeyError again: the exception leaves process_job.
WriteJob(j, from, key, val, to) ==
    /\ pc[j] = from
    /\ IF j \in DOMAIN jobs
       THEN /\ jobs' = [jobs EXCEPT ![j] = SetKey(@, key, val)]
            /\ IF to = "done"
               THEN Finish(j, "done")
               ELSE pc' = [pc EXCEPT ![j] = to] /\ loc' = loc
       ELSE /\ jobs' = jobs
            /\ Finish(j, "crashed")
    /\ resp' = NoResp
    /\ UNCHANGED <<now, sessions, rate_limit_storage, next_job, next_token, edgar_identity>>

\* A call into the provider library (edgar, pandas) that touches no registry:
\* it returns (the worker goes on at `to` with locals `l`) or raises (at `exc`).
Call(j, from, to, l, exc) ==
    /\ pc[j] = from
    /\ \/ pc' = [pc EXCEPT ![j] = to] /\ loc' = [loc EXCEPT ![j] = l]
       \/ pc' = [pc EXCEPT ![j] = exc] /\ loc' = loc
    /\ resp' = NoResp
    /\ UNCHANGED <<now, sessions, rate_limit_storage, jobs, next_job, next_token, edgar_identity>>

W_L165(j) == WriteJob(j, "L165", "status", "processing", "L166")
W_L166(j) == WriteJob(j, "L166", "message", "Setting up SEC identity...", "L171")
\* main.py:169-171: edgar.set_identity(identity) stores the identity in the
\* edgar module, for every later request of the process to present; or raises.
W_L171(j) ==
    /\ pc[j] = "L171"
    /\ \/ /\ edgar_identity' = Identity(loc[j].name, loc[j].email)
          /\ pc' = [pc EXCEPT ![j] = "L174"]
       \/ /\ edgar_identity' = edgar_identity
          /\ pc' = [pc EXCEPT ![j] = "L307"]
    /\ resp' = NoResp
    /\ UNCHANGED <<now, sessions, rate_limit_storage, jobs, loc, next_job, next_token>>
W_L174(j) == WriteJob(j, "L174", "message", MsgFetchCompany(loc[j].ticker), "L178")
\* company = edgar.Company(ticker.upper()), in its own try/except
W_L178(j) == Call(j, "L178", "L185", loc[j], "L180")
W_L180(j) == WriteJob(j, "L180", "status", "error", "L181")
W_L181(j) == WriteJob(j, "L181", "error", ErrInvalidTicker(loc[j].ticker), "done")
W_L185(j) == WriteJob(j, "L185", "message", "Fetching 10-Q filings since 2010...", "L187")

\* main.py:203
NumBatches(total) == (total + BATCH_SIZE - 1) \div BATCH_SIZE

\* main.py:187-203: the filings are fetched and counted; none found goes to
\* the error of line 192, else the batch loop starts (num_batches > 0).
\* counts: the numbers of filings the provider may find.
W_L187_of(j, counts) ==
    \E n \in counts :
        Call(j, "L187",
             IF n = 0 THEN "L192" ELSE "L210",
             [loc[j] EXCEPT !.total_filings = n, !.num_batches = NumBatches(n),
                            !.batch_idx = 0],
             "L307")
W_L187(j) == W_L187_of(j, FilingCounts)
W_L192(j) == WriteJob(j, "L192", "status", "error", "L193")
W_L193(j) == WriteJob(j, "L193", "error", ErrNoFilings(loc[j].ticker), "done")

\* main.py:206-210: the slice of the batch is taken and the progress
\* message written.
W_L210(j) ==
    /\ pc[j] = "L210"
    /\ IF j \in DOMAIN jobs
       THEN /\ jobs' = [jobs EXCEPT ![j] =
                          SetKey(@, "message",
                                 MsgBatch(loc[j].batch_idx, loc[j].num_batches,
                                          loc[j].total_filings))]
            /\ pc' = [pc EXCEPT ![j] = "L215"]
            /\ loc' = [loc EXCEPT ![j].start_idx = StartIdx(loc[j].batch_idx),
                                  ![j].end_idx = EndIdx(loc[j].batch_idx,
                                                        loc[j].total_filings)]
       ELSE /\ jobs' = jobs
            /\ Finish(j, "crashed")
    /\ resp' = NoResp
    /\ UNCHANGED <<now, sessions, rate_limit_storage, next_job, next_token, edgar_identity>>

\* The check of main.py:256 failing the job as soon as one list is empty
NoDataOfSomeKind(dfs) == \E k \in Kinds : dfs[k] = <<>>

\* main.py:256: not all_bs_dfs and not all_is_dfs and not all_cf_dfs and not all_se_dfs
NoData(dfs) == \A k \in Kinds : dfs[k] = <<>>

\* Where the worker goes after batch idx ended with the lists dfs: the next
\* batch, or past the loop to the check of main.py:256.
AfterBatch(l, dfs) ==
    IF l.batch_idx + 1 < l.num_batches THEN "L210"
    ELSE IF NoData(dfs) THEN "L257" ELSE "L262"

\* The order of the four extractions in a batch (main.py:220-242).
KindOrder == <<"bs", "is", "cf", "se">>
Position(k) == CHOOSE i \in 1..Len(KindOrder) : KindOrder[i] = k

\* The extractions in one try block: none is attempted after the first that raises
AttemptedUntilRaise(raises) ==
    {k \in Kinds : \A o \in raises : Position(o) >= Position(k)}

\* main.py:220-242: the extractions a batch attempts when those of `raises`
\* raise: each has a try/except of its own, so all four.
Attempted(raises) == Kinds

\* main.py:213-253: one batch.  XBRLS.from_filings raises (the batch is
\* skipped, main.py:249-253) or it returns and each of the four extractions
\* appends its table or raises, is logged and skipped.  A table is written
\* as the number of the batch it came from; batch_log is what the worker
\* printed about the batch: whether it was parsed (main.py:247) or not
\* (main.py:250), and the extraction errors (main.py:224, 230, 236, 242).
\* outcomes: the sets of kinds the provider may be able to extract.
W_L215_of(j, outcomes) ==
    /\ pc[j] = "L215"
    /\ \E parsed \in BOOLEAN : \E can \in outcomes :
          LET l == loc[j]
              raises == Kinds \ can
              got == Attempted(raises) \ raises
              dfs == [k \in Kinds |->
                        IF parsed /\ k \in got
                        THEN Append(l.dfs[k], l.batch_idx + 1) ELSE l.dfs[k]]
              log == [parsed |-> parsed,
                      errors |-> IF parsed THEN Attempted(raises) \cap raises ELSE {}]
          IN /\ parsed \/ can = {}
             /\ pc' = [pc EXCEPT ![j] = AfterBatch(l, dfs)]
             /\ loc' = [loc EXCEPT ![j] = [l EXCEPT !.dfs = dfs,
                                                    !.batch_log = log,
                                                    !.batch_idx = l.batch_idx + 1]]
    /\ resp' = NoResp
    /\ UNCHANGED <<now, sessions, rate_limit_storage, jobs, next_job, next_token, edgar_identity>>
W_L215(j) == W_L215_of(j, ExtractOutcomes)

\* W_L258 with the return of main.py:259 left out
W_L258_NoReturn(j) ==
    WriteJob(j, "L258", "error", "Failed to extract any financial data from filings.", "L262")
W_L257(j) == WriteJob(j, "L257", "status", "error", "L258")
W_L258(j) ==
    WriteJob(j, "L258", "error", "Failed to extract any financial data from filings.", "done")
W_L262(j) == WriteJob(j, "L262", "message", "Combining batched results...", "L266")
\* main.py:266-273: pd.concat of each kind's list along the columns, an
\* empty DataFrame for an empty list; the lists are deleted.  The frames BS,
\* IS, CF, SE are kept in output (their columns) and rows (their length).
W_L266(j) ==
    \E r \in [Kinds -> RowCounts] :
        Call(j, "L266", "L276",
             [loc[j] EXCEPT !.output = loc[j].dfs, !.dfs = NoLoc.dfs,
                            !.rows = [k \in Kinds |->
                                        IF loc[j].dfs[k] = <<>> THEN 0 ELSE r[k]]],
             "L307")
W_L276(j) == WriteJob(j, "L276", "message", "Creating Excel file...", "L285")
\* BS_ROW with the blank line of main.py:280 forgotten
StartRowsPacked(len) ==
    [k \in Kinds |->
        CASE k = "bs" -> 0
          [] k = "is" -> len["bs"] + 1
          [] k = "cf" -> len["bs"] + 1 + len["is"] + 1
          [] k = "se" -> len["bs"] + 1 + len["is"] + 1 + len["cf"] + 1]

\* main.py:279-282: BS_ROW, IS_ROW, CF_ROW, SE_ROW from the lengths of the frames
StartRows(len) ==
    LET BS_ROW == 0
        IS_ROW == len["bs"] + 2
        CF_ROW == IS_ROW + len["is"] + 1
        SE_ROW == CF_ROW + len["cf"] + 1
    IN [k \in Kinds |->
           CASE k = "bs" -> BS_ROW [] k = "is" -> IS_ROW
             [] k = "cf" -> CF_ROW [] k = "se" -> SE_ROW]

\* to_excel writing the column header of every frame
RenderedWithHeaders(len, at) ==
    [k \in Kinds |-> IF len[k] = 0 THEN {} ELSE at[k]..(at[k] + len[k])]

\* main.py:286-293: the rows of the sheet each frame is written to.  A frame
\* that is empty is not written; to_excel(startrow = r) writes the column
\* header at row r and the data rows below it, and with header = False the
\* data rows from row r on.  Only BS is written with its header.
Rendered(len, at) ==
    [k \in Kinds |->
        IF len[k] = 0 THEN {}
        ELSE IF k = "bs" THEN at[k]..(at[k] + len[k])
        ELSE at[k]..(at[k] + len[k] - 1)]

\* main.py:279-295: the start rows are computed and the workbook is written
\* to the BytesIO
W_L285(j) ==
    Call(j, "L285", "L298",
         [loc[j] EXCEPT !.startrow = StartRows(loc[j].rows),
                        !.sheet = Rendered(loc[j].rows, StartRows(loc[j].rows))],
         "L307")
W_L298(j) == WriteJob(j, "L298", "status", "completed", "L299")
W_L299(j) == WriteJob(j, "L299", "message", MsgReady(loc[j].total_filings), "L300")
W_L300(j) == WriteJob(j, "L300", "result", loc[j].output, "L301")
W_L301(j) == WriteJob(j, "L301", "filename", FileName(loc[j].ticker), "done")
\* main.py:304-308: except Exception
W_L307(j) == WriteJob(j, "L307", "status", "error", "L308")
W_L308(j) == WriteJob(j, "L308", "error", ErrUnexpected, "done")

process_job(j) ==
    \/ W_L165(j) \/ W_L166(j) \/ W_L171(j) \/ W_L174(j) \/ W_L178(j)
    \/ W_L180(j) \/ W_L181(j) \/ W_L185(j) \/ W_L187(j) \/ W_L192(j)
    \/ W_L193(j) \/ W_L210(j) \/ W_L215(j) \/ W_L257(j) \/ W_L258(j)
    \/ W_L262(j) \/ W_L266(j) \/ W_L276(j) \/ W_L285(j) \/ W_L298(j)
    \/ W_L299(j) \/ W_L300(j) \/ W_L301(j) \/ W_L307(j) \/ W_L308(j)

\* process_job against a provider that finds one of `counts` filings and
\* whose batches yield one of `outcomes`.
process_job_of(j, counts, outcomes) ==
    \/ W_L165(j) \/ W_L166(j) \/ W_L171(j) \/ W_L174(j) \/ W_L178(j)
    \/ W_L180(j) \/ W_L181(j) \/ W_L185(j) \/ W_L187_of(j, counts) \/ W_L192(j)
    \/ W_L193(j) \/ W_L210(j) \/ W_L215_of(j, outcomes) \/ W_L257(j) \/ W_L258(j)
    \/ W_L262(j) \/ W_L266(j) \/ W_L276(j) \/ W_L285(j) \/ W_L298(j)
    \/ W_L299(j) \/ W_L300(j) \/ W_L301(j) \/ W_L307(j) \/ W_L308(j)

----------------------------------------------------------------------------
(* The HTTP handlers *)

\* POST /api/login (main.py:329-364).  good: the credentials match.
login(ip, good) ==
    /\ rate_limit_storage' = RateAfter(LoginKey(ip))
    /\ IF ~check_rate_limit(LoginKey(ip))
       THEN /\ resp' = [op |-> "login", client |-> ip, code |-> 429]
            /\ UNCHANGED <<sessions, next_token>>
       ELSE IF ~good
       THEN /\ resp' = [op |-> "login", client |-> ip, code |-> 401]
            /\ UNCHANGED <<sessions, next_token>>
       ELSE /\ sessions' = create_session(next_token)
            /\ next_token' = next_token + 1
            /\ resp' = [op |-> "login", client |-> ip, code |-> 200, cookie |-> next_token]
    /\ UNCHANGED <<now, jobs, pc, loc, next_job, edgar_identity>>

\* logout deleting every session of the store
logout_everyone(tok) ==
    /\ sessions' = IF tok # NoToken /\ tok \in DOMAIN sessions THEN <<>> ELSE sessions
    /\ resp' = [op |-> "logout", code |-> 200, token |-> tok]
    /\ UNCHANGED <<now, rate_limit_storage, jobs, pc, loc, next_job, next_token, edgar_identity>>

\* POST /api/logout (main.py:367-375).  tok: the cookie of the request.
logout(tok) ==
    /\ sessions' = IF tok # NoToken /\ tok \in DOMAIN sessions
                   THEN Without(sessions, {tok}) ELSE sessions
    /\ resp' = [op |-> "logout", code |-> 200, token |-> tok]
    /\ UNCHANGED <<now, rate_limit_storage, jobs, pc, loc, next_job, next_token, edgar_identity>>

\* GET /api/auth/check (main.py:378-383)
check_auth(tok) ==
    /\ sessions' = SessionsAfterVerify(tok)
    /\ resp' = [op |-> "check", code |-> 200, token |-> tok,
                authenticated |-> verify_session(tok)]
    /\ UNCHANGED <<now, rate_limit_storage, jobs, pc, loc, next_job, next_token, edgar_identity>>

\* generate_excel, with the rate limiter asked before the session is verified
generate_excel_limit_first(ip, tok, d) ==
    \/ /\ ~check_rate_limit(GenerateKey(ip))
       /\ rate_limit_storage' = RateAfter(GenerateKey(ip))
       /\ resp' = [op |-> "generate", client |-> ip, code |-> 429]
       /\ UNCHANGED <<now, sessions, jobs, pc, loc, next_job, next_token, edgar_identity>>
    \/ /\ check_rate_limit(GenerateKey(ip))
       /\ ~verify_session(tok)
       /\ rate_limit_storage' = RateAfter(GenerateKey(ip))
       /\ sessions' = SessionsAfterVerify(tok)
       /\ resp' = [op |-> "generate", code |-> 401]
       /\ UNCHANGED <<now, jobs, pc, loc, next_job, next_token, edgar_identity>>
    \/ /\ check_rate_limit(GenerateKey(ip))
       /\ verify_session(tok)
       /\ next_job <= MaxJobs
       /\ rate_limit_storage' = RateAfter(GenerateKey(ip))
       /\ jobs' = SetKey(Without(jobs, expired), next_job, NewJob(d))
       /\ pc' = [pc EXCEPT ![next_job] = "L165"]
       /\ loc' = [loc EXCEPT ![next_job] = StartLoc(d)]
       /\ next_job' = next_job + 1
       /\ resp' = [op |-> "generate", client |-> ip, code |-> 200, job_id |-> next_job,
                   status |-> "pending", message |-> "Job started"]
       /\ UNCHANGED <<now, sessions, next_token, edgar_identity>>

\* generate_excel, with the job stored before the rate limiter is asked
generate_excel_job_first(ip, tok, d) ==
    \/ /\ ~verify_session(tok)
       /\ sessions' = SessionsAfterVerify(tok)
       /\ resp' = [op |-> "generate", code |-> 401]
       /\ UNCHANGED <<now, rate_limit_storage, jobs, pc, loc, next_job, next_token, edgar_identity>>
    \/ /\ verify_session(tok)
       /\ next_job <= MaxJobs
       /\ rate_limit_storage' = RateAfter(GenerateKey(ip))
       /\ jobs' = SetKey(Without(jobs, expired), next_job, NewJob(d))
       /\ next_job' = next_job + 1
       /\ IF check_rate_limit(GenerateKey(ip))
          THEN /\ pc' = [pc EXCEPT ![next_job] = "L165"]
               /\ loc' = [loc EXCEPT ![next_job] = StartLoc(d)]
               /\ resp' = [op |-> "generate", client |-> ip, code |-> 200, job_id |-> next_job,
                           status |-> "pending", message |-> "Job started"]
          ELSE /\ resp' = [op |-> "generate", client |-> ip, code |-> 429]
               /\ UNCHANGED <<pc, loc>>
       /\ UNCHANGED <<now, sessions, next_token, edgar_identity>>

\* POST /api/generate (main.py:386-424), with its dependency require_auth
\* (main.py:142-153): 401 without a valid session, 429 when the rate limiter
\* denies, else the sweep, the new job and its thread.
generate_excel(ip, tok, d) ==
    \/ /\ ~verify_session(tok)
       /\ sessions' = SessionsAfterVerify(tok)
       /\ resp' = [op |-> "generate", code |-> 401]
       /\ UNCHANGED <<now, rate_limit_storage, jobs, pc, loc, next_job, next_token, edgar_identity>>
    \/ /\ verify_session(tok)
       /\ ~check_rate_limit(GenerateKey(ip))
       /\ rate_limit_storage' = RateAfter(GenerateKey(ip))
       /\ resp' = [op |-> "generate", client |-> ip, code |-> 429]
       /\ UNCHANGED <<now, sessions, jobs, pc, loc, next_job, next_token, edgar_identity>>
    \/ /\ verify_session(tok)
       /\ check_rate_limit(GenerateKey(ip))
       /\ next_job <= MaxJobs
       /\ rate_limit_storage' = RateAfter(GenerateKey(ip))
       /\ jobs' = SetKey(Without(jobs, expired), next_job, NewJob(d))
       /\ pc' = [pc EXCEPT ![next_job] = "L165"]
       /\ loc' = [loc EXCEPT ![next_job] = StartLoc(d)]
       /\ next_job' = next_job + 1
       /\ resp' = [op |-> "generate", client |-> ip, code |-> 200, job_id |-> next_job,
                   status |-> "pending", message |-> "Job started"]
       /\ UNCHANGED <<now, sessions, next_token, edgar_identity>>

\* get_job_status treating a job past its expires_at as not found
get_job_status_until_expiry(id, tok) ==
    /\ sessions' = SessionsAfterVerify(tok)
    /\ resp' = IF ~verify_session(tok) THEN [op |-> "status", code |-> 401]
               ELSE IF id \notin DOMAIN jobs \/ id \in expired
               THEN [op |-> "status", job_id |-> id, code |-> 404]
               ELSE [op |-> "status", job_id |-> id, code |-> 200,
                     status |-> jobs[id].status,
                     message |-> Get(jobs[id], "message", ""),
                     error |-> Get(jobs[id], "error", PyNone)]
    /\ UNCHANGED <<now, rate_limit_storage, jobs, pc, loc, next_job, next_token, edgar_identity>>

\* GET /api/job/{job_id} (main.py:427-439)
get_job_status(id, tok) ==
    /\ sessions' = SessionsAfterVerify(tok)
    /\ resp' = IF ~verify_session(tok) THEN [op |-> "status", code |-> 401]
               ELSE IF id \notin DOMAIN jobs
               THEN [op |-> "status", job_id |-> id, code |-> 404]
               ELSE [op |-> "status", job_id |-> id, code |-> 200,
                     status |-> jobs[id].status,
                     message |-> Get(jobs[id], "message", ""),
                     error |-> Get(jobs[id], "error", PyNone)]
    /\ UNCHANGED <<now, rate_limit_storage, jobs, pc, loc, next_job, next_token, edgar_identity>>

\* DownloadResponse with the status test of main.py:450 left out
DownloadResponseNoStatus(id) ==
    IF id \notin DOMAIN jobs
    THEN [op |-> "download", job_id |-> id, code |-> 404]
    ELSE IF ~Has(jobs[id], "result")
    THEN [op |-> "download", job_id |-> id, code |-> 500]
    ELSE [op |-> "download", job_id |-> id, code |-> 200,
          body |-> jobs[id].result,
          filename |-> Get(jobs[id], "filename", "report.xlsx")]

\* main.py:445-466: what download_job_result answers once require_auth passed
DownloadResponse(id) ==
    IF id \notin DOMAIN jobs
    THEN [op |-> "download", job_id |-> id, code |-> 404]
    ELSE IF jobs[id].status # "completed"
    THEN [op |-> "download", job_id |-> id, code |-> 400]
    ELSE IF ~Has(jobs[id], "result")
    THEN [op |-> "download", job_id |-> id, code |-> 500]
    ELSE [op |-> "download", job_id |-> id, code |-> 200,
          body |-> jobs[id].result,
          filename |-> Get(jobs[id], "filename", "report.xlsx")]

\* download_job_result serving a result once: the payload is popped from the record
download_job_result_once(id, tok) ==
    /\ sessions' = SessionsAfterVerify(tok)
    /\ resp' = IF ~verify_session(tok) THEN [op |-> "download", code |-> 401]
               ELSE DownloadResponse(id)
    /\ jobs' = IF verify_session(tok) /\ DownloadResponse(id).code = 200
               THEN [jobs EXCEPT ![id] = Without(@, {"result"})]
               ELSE jobs
    /\ UNCHANGED <<now, rate_limit_storage, pc, loc, next_job, next_token, edgar_identity>>

\* GET /api/job/{job_id}/download (main.py:442-466), with require_auth
download_job_result(id, tok) ==
    /\ sessions' = SessionsAfterVerify(tok)
    /\ resp' = IF ~verify_session(tok) THEN [op |-> "download", code |-> 401]
               ELSE DownloadResponse(id)
    /\ UNCHANGED <<now, rate_limit_storage, jobs, pc, loc, next_job, next_token, edgar_identity>>

\* The wall clock advances by d, up to max.
TickTo(d, max) ==
    /\ now + d <= max
    /\ now' = now + d
    /\ resp' = NoResp
    /\ UNCHANGED <<sessions, rate_limit_storage, jobs, pc, loc, next_job, next_token, edgar_identity>>

----------------------------------------------------------------------------
(* Initial states *)

\* The process has just started: main.py:40, 44, 49.
InitFresh ==
    /\ now = 0
    /\ sessions = <<>>
    /\ rate_limit_storage = [k \in RateKeys |-> <<>>]
    /\ jobs = <<>>
    /\ pc = [j \in JobIds |-> "none"]
    /\ loc = [j \in JobIds |-> NoLoc]
    /\ next_job = 1
    /\ next_token = 1
    /\ edgar_identity = PyNone
    /\ resp = NoResp

\* The registries after a burst: one client has logged in and, within the
\* same second, had RATE_LIMIT_REQUESTS - 1 generation requests admitted,
\* and each of their workers has ended at main.py:182 (the provider did not
\* resolve the ticker).  The rate limiter denies POST /api/generate only
\* with RATE_LIMIT_REQUESTS jobs younger than the window in the registry;
\* the model starts here as well so that this happens within MaxJobs
\* further jobs.
BurstIds == (1 - RATE_LIMIT_REQUESTS)..(0 - 1)
BurstRequest == [name |-> "Ann", email |-> "ann@x.org", ticker |-> "aapl"]
BurstJob ==
    SetKey(SetKey(SetKey(NewJob(BurstRequest),
        "status", "error"),
        "message", MsgFetchCompany(BurstRequest.ticker)),
        "error", ErrInvalidTicker(BurstRequest.ticker))
InitBurst ==
    /\ now = 0
    /\ sessions = SetKey(<<>>, 1, 0 + SESSION_DURATION)
    /\ rate_limit_storage =
          [k \in RateKeys |->
              IF k = LoginKey("10.0.0.1") THEN <<0>>
              ELSE IF k = GenerateKey("10.0.0.1")
              THEN [i \in 1..(RATE_LIMIT_REQUESTS - 1) |-> 0]
              ELSE <<>>]
    /\ jobs = [id \in BurstIds |-> BurstJob]
    /\ pc = [j \in JobIds |-> "none"]
    /\ loc = [j \in JobIds |-> NoLoc]
    /\ next_job = 1
    /\ next_token = 2
    /\ edgar_identity = Identity(BurstRequest.name, BurstRequest.email)
    /\ resp = NoResp

Init == InitFresh \/ InitBurst

Tick(d) == TickTo(d, MaxNow)
\* The login attempts explored: MaxLogins in a rate window, MaxTokens sessions.
LoginBound(ip, good) ==
    /\ Len(Pruned(LoginKey(ip))) < MaxLogins
    /\ good => next_token <= MaxTokens

Next ==
    \/ \E ip \in Clients, good \in Credentials : LoginBound(ip, good) /\ login(ip, good)
    \/ \E ip \in Clients, tok \in {NoToken} \cup Tokens, d \in Requests : generate_excel(ip, tok, d)
    \/ \E id \in JobIds \cup {UnknownJob}, tok \in {NoToken} \cup Tokens : get_job_status(id, tok)
    \/ \E id \in JobIds \cup {UnknownJob}, tok \in {NoToken} \cup Tokens : download_job_result(id, tok)
    \/ \E d \in TickSteps : Tick(d)
    \/ \E j \in JobIds : process_job(j)

Spec == Init /\ [][Next]_vars

\* The session store alone: logins with good and bad credentials, lookups
\* through GET /api/auth/check with no cookie, issued and never issued
\* tokens, and a clock stepping to the instant a session created now expires
\* at and one second past it.  No job is started.
SessionTokens == {NoToken} \cup (1..MaxSessions)
SessionTickSteps == {SESSION_DURATION, SESSION_DURATION + 1}
SessionLoginBound(ip, good) ==
    /\ Len(Pruned(LoginKey(ip))) < MaxLogins
    /\ good => next_token <= MaxSessions
NextSession ==
    \/ \E ip \in Clients, good \in BOOLEAN : SessionLoginBound(ip, good) /\ login(ip, good)
    \/ \E tok \in SessionTokens : check_auth(tok)
    \/ \E d \in SessionTickSteps : TickTo(d, MaxSessionNow)
SessionSpec == InitFresh /\ [][NextSession]_vars

\* SessionSpec with POST /api/logout.
NextAuth ==
    \/ \E ip \in Clients, good \in BOOLEAN : SessionLoginBound(ip, good) /\ login(ip, good)
    \/ \E tok \in SessionTokens : check_auth(tok)
    \/ \E tok \in SessionTokens : logout(tok)
    \/ \E d \in SessionTickSteps : TickTo(d, MaxSessionNow)
AuthSpec == InitFresh /\ [][NextAuth]_vars

\* The rate limiter alone: any number of login attempts and generation
\* requests, and a clock stepping to the last instant a timestamp taken now
\* is inside the window and to the first instant it is outside.  The worker
\* threads are left out: they neither read nor write rate_limit_storage.
RateTickSteps == {RATE_LIMIT_WINDOW - 1, RATE_LIMIT_WINDOW}
NextRate ==
    \/ \E ip \in Clients, good \in BOOLEAN :
          (good => next_token <= MaxTokens) /\ login(ip, good)
    \/ \E ip \in Clients, tok \in {NoToken} \cup Tokens, d \in Requests :
          generate_excel(ip, tok, d)
    \/ \E d \in RateTickSteps : TickTo(d, MaxRateNow)
RateSpec == Init /\ [][NextRate]_vars

\* The sheet layout alone.  The worker of job 1 has concatenated the tables
\* of its one batch and is about to compute the start rows (main.py:279);
\* each of its four frames has any number of rows up to MaxRows.
LayoutRequest == [name |-> "Ann", email |-> "ann@x.org", ticker |-> "aapl"]
LayoutJob ==
    SetKey(SetKey(NewJob(LayoutRequest),
        "status", "processing"),
        "message", "Creating Excel file...")
InitLayout ==
    /\ now = 0
    /\ sessions = SetKey(<<>>, 1, 0 + SESSION_DURATION)
    /\ rate_limit_storage = [k \in RateKeys |-> <<0>>]
    /\ jobs = SetKey(<<>>, 1, LayoutJob)
    /\ pc = [j \in JobIds |-> IF j = 1 THEN "L285" ELSE "none"]
    /\ \E r \in [Kinds -> 0..MaxRows] :
          loc = [j \in JobIds |->
                   IF j = 1
                   THEN [StartLoc(LayoutRequest) EXCEPT
                            !.total_filings = 1, !.num_batches = NumBatches(1),
                            !.batch_idx = 1, !.start_idx = StartIdx(0),
                            !.end_idx = EndIdx(0, 1),
                            !.output = [k \in Kinds |-> <<1>>], !.rows = r]
                   ELSE NoLoc]
    /\ next_job = 2
    /\ next_token = 2
    /\ edgar_identity = Identity(LayoutRequest.name, LayoutRequest.email)
    /\ resp = NoResp
NextLayout ==
    \E j \in JobIds :
        \/ W_L285(j) \/ W_L298(j) \/ W_L299(j) \/ W_L300(j) \/ W_L301(j)
        \/ W_L307(j) \/ W_L308(j)
LayoutSpec == InitLayout /\ [][NextLayout]_vars

\* The batch loop: Spec without the two GET handlers, against a provider
\* that finds fewer filings than a batch, exactly one batch, or one batch
\* and a part, and whose batches yield no statement, one kind, or all four.
BatchFilingCounts == {0, BATCH_SIZE - 1, BATCH_SIZE, BATCH_SIZE + 2}
BatchOutcomes == { {}, {"is"}, Kinds }
NextBatch ==
    \/ \E ip \in Clients, good \in Credentials : LoginBound(ip, good) /\ login(ip, good)
    \/ \E ip \in Clients, tok \in {NoToken} \cup Tokens, d \in Requests : generate_excel(ip, tok, d)
    \/ \E d \in TickSteps : Tick(d)
    \/ \E j \in JobIds : process_job_of(j, BatchFilingCounts, BatchOutcomes)
BatchSpec == Init /\ [][NextBatch]_vars

\* Two requesters: Spec without the two GET handlers and without the clock,
\* with generation requests of two people.
IdentRequests ==
    { [name |-> "Ann", email |-> "ann@x.org", ticker |-> "aapl"],
      [name |-> "Bob", email |-> "bob@y.org", ticker |-> "aapl"] }
NextIdent ==
    \/ \E ip \in Clients, good \in Credentials : LoginBound(ip, good) /\ login(ip, good)
    \/ \E ip \in Clients, tok \in {NoToken} \cup Tokens, d \in IdentRequests :
          generate_excel(ip, tok, d)
    \/ \E j \in JobIds : process_job(j)
IdentSpec == Init /\ [][NextIdent]_vars

\* Fair scheduling of the worker threads: a thread that can take a step
\* eventually takes it (the provider's calls return).
FairSpec == Spec /\ \A j \in JobIds : WF_vars(process_job(j))

----------------------------------------------------------------------------
(* Properties *)

Terminal == {"completed", "error"}
MidFlight == {"pending", "processing"}
Ended == {"done", "crashed"}

\* C1: the status of a job record changes only pending -> processing,
\* processing -> completed or processing -> error: no step of a worker, of
\* the eviction sweep or of a reading handler changes it otherwise, and a
\* completed or failed job keeps its status as long as it is in the registry.
StateMonotonic ==
    [][\A id \in DOMAIN jobs \cap DOMAIN jobs' :
          jobs'[id].status # jobs[id].status =>
             <<jobs[id].status, jobs'[id].status>> \in
                 { <<"pending", "processing">>,
                   <<"processing", "completed">>,
                   <<"processing", "error">> }]_vars

\* Both terminal states have been reached, by two jobs in the registry at
\* once (the second admission ran the sweep over the first job).
StateMonotonicWitness ==
    /\ 1 \in DOMAIN jobs /\ 2 \in DOMAIN jobs
    /\ {jobs[1].status, jobs[2].status} = Terminal
    /\ pc[1] = "done" /\ pc[2] = "done"

\* C2: in every reachable state a job record holds a result if and only if
\* its status is completed.
ResultIffCompleted ==
    \A id \in DOMAIN jobs : Has(jobs[id], "result") <=> jobs[id].status = "completed"

\* C3: in every reachable state a job record holds an error message if and
\* only if its status is error.
ErrorIffFailed ==
    \A id \in DOMAIN jobs : Has(jobs[id], "error") <=> jobs[id].status = "error"

\* C4: when a worker thread ends, by return or by an exception, the record
\* of its job holds a terminal status.
WorkerEndsTerminal ==
    [][\A j \in JobIds :
          (pc[j] \notin Ended /\ pc'[j] \in Ended) =>
              (j \in DOMAIN jobs' /\ jobs'[j].status \in Terminal)]_vars

\* C5: every admitted job (its thread has just been started) eventually
\* holds a terminal status.
EveryJobEnds ==
    \A j \in JobIds :
        (pc[j] = "L165") ~> (j \in DOMAIN jobs /\ jobs[j].status \in Terminal)

\* C6: no step removes from the registry a job whose status is pending or
\* processing.
SweepSparesMidFlight ==
    [][\A id \in DOMAIN jobs :
          jobs[id].status \in MidFlight => id \in DOMAIN jobs']_vars

\* C7: a record that stays in the registry changes only in a step of the
\* worker thread of that very job (no other thread moves, and the step is no
\* HTTP handler), and the steps that answer GET /api/job/{id} and
\* GET /api/job/{id}/download leave the whole registry as it is.
SingleWriter ==
    [][/\ \A id \in DOMAIN jobs \cap DOMAIN jobs' :
             jobs'[id] # jobs[id] =>
                /\ id \in JobIds
                /\ pc[id] \notin {"none"} \cup Ended
                /\ pc'[id] # pc[id]
                /\ \A o \in JobIds \ {id} : pc'[o] = pc[o]
                /\ resp' = NoResp
       /\ resp'.op \in {"status", "download"} => jobs' = jobs]_vars

\* A download has just been answered with the payload of job 1 while the
\* worker of job 2 is in the middle of its writes.
SingleWriterWitness ==
    /\ resp.op = "download" /\ resp.code = 200 /\ resp.job_id = 1
    /\ 2 \in DOMAIN jobs /\ jobs[2].status = "processing" /\ pc[2] = "L276"

\* C8: a POST /api/generate answered 401 or 429 leaves the registry and the
\* worker threads as they are; an admitted one adds exactly one record, in
\* status pending, under an id that is no key of the registry and was never
\* handed out, starts the thread of that id and no other, and changes no
\* record that stays.
AdmissionEffect ==
    [][resp'.op = "generate" =>
          IF resp'.code \in {401, 429}
          THEN jobs' = jobs /\ pc' = pc /\ loc' = loc
          ELSE LET new == DOMAIN jobs' \ DOMAIN jobs
               IN /\ Cardinality(new) = 1
                  /\ \A id \in new :
                        /\ jobs'[id].status = "pending"
                        /\ resp'.job_id = id
                        /\ id >= next_job
                        /\ pc[id] = "none" /\ pc'[id] = "L165"
                        /\ \A o \in JobIds \ {id} : pc'[o] = pc[o]
                  /\ \A id \in DOMAIN jobs \cap DOMAIN jobs' : jobs'[id] = jobs[id]]_vars

\* The rate limiter has just denied a generation request, after another one
\* was admitted (job 1 and its thread exist).
AdmissionEffectWitness ==
    /\ resp.op = "generate" /\ resp.code = 429
    /\ 1 \in DOMAIN jobs /\ pc[1] # "none"

\* C9: an authenticated GET /api/job/{id}/download answers 404 when id is
\* no key of the registry, 400 when the job's status is not completed, 500
\* when it is completed and holds no result, and the stored result only (and
\* then always) when the status is completed and a result is stored.
DownloadAnswers ==
    [][(resp'.op = "download" /\ resp'.code # 401) =>
          LET id == resp'.job_id
              known == id \in DOMAIN jobs
              completed == known /\ jobs[id].status = "completed"
              stored == completed /\ Has(jobs[id], "result")
          IN /\ resp'.code = (IF ~known THEN 404
                              ELSE IF ~completed THEN 400
                              ELSE IF ~stored THEN 500 ELSE 200)
             /\ resp'.code = 200 => resp'.body = jobs[id].result
             /\ resp'.code # 200 => ~Has(resp', "body")]_vars

\* A download of a completed job has been answered with its payload.
DownloadAnswersWitness ==
    /\ resp.op = "download" /\ resp.code = 200
    /\ jobs[resp.job_id].status = "completed"

\* C10: two successful downloads of a job return the same payload and the
\* same filename, whatever runs between them: as long as a download of the
\* job succeeds, what it returns does not change; and a download changes no
\* job.
DownloadIdempotent ==
    [][/\ \A id \in JobIds :
             (DownloadResponse(id).code = 200 /\ DownloadResponse(id)'.code = 200)
                 => DownloadResponse(id)' = DownloadResponse(id)
       /\ resp'.op = "download" => jobs' = jobs]_vars

----------------------------------------------------------------------------
(* Sessions *)

\* C11, as the claim states it: GET /api/auth/check answers authenticated
\* exactly when the presented token is in the store with now < expiry.
SessionValidBeforeExpiry ==
    [][resp'.op = "check" =>
          (resp'.authenticated <=>
              /\ resp'.token \in DOMAIN sessions
              /\ now < sessions[resp'.token])]_vars

\* C11, amended: a lookup answers valid exactly when the presented token is
\* in the store with now <= expiry (the session is still valid at the very
\* instant of its expiry and invalid at every later one); a login that
\* succeeds stores its token with expiry now + SESSION_DURATION, so the
\* token is valid immediately after it.
SessionValidUntilExpiry ==
    [][/\ resp'.op = "check" =>
            (resp'.authenticated <=>
                /\ resp'.token \in DOMAIN sessions
                /\ now <= sessions[resp'.token])
       /\ (resp'.op = "login" /\ resp'.code = 200) =>
            /\ resp'.cookie \in DOMAIN sessions'
            /\ sessions'[resp'.cookie] = now + SESSION_DURATION
            /\ now' <= sessions'[resp'.cookie]]_vars

\* A lookup at the very instant of expiry answered authenticated.
SessionValidAtExpiryWitness ==
    /\ resp.op = "check"
    /\ resp.authenticated
    /\ resp.token \in DOMAIN sessions
    /\ now = sessions[resp.token]

\* C19: a lookup changes the session store in one case only: the presented
\* token is in the store and past its expiry; then exactly that entry is
\* deleted and the answer is false.  Else the store is left as it was and
\* the answer is true exactly for a token in the store.  No step alters the
\* expiry of a stored session.
VerifyFrame ==
    [][/\ resp'.op = "check" =>
            LET t == resp'.token
            IN IF t \in DOMAIN sessions /\ now > sessions[t]
               THEN /\ sessions' = Without(sessions, {t})
                    /\ ~resp'.authenticated
               ELSE /\ sessions' = sessions
                    /\ resp'.authenticated <=> t \in DOMAIN sessions
       /\ \A t \in DOMAIN sessions \cap DOMAIN sessions' :
            sessions'[t] = sessions[t]]_vars

\* A lookup found an issued token gone from the store (no logout in
\* SessionSpec: a lookup removed it) while another session is still stored.
VerifyFrameWitness ==
    /\ resp.op = "check"
    /\ ~resp.authenticated
    /\ resp.token # NoToken
    /\ resp.token < next_token
    /\ resp.token \notin DOMAIN sessions
    /\ sessions # <<>>

\* C20: POST /api/logout removes the presented token from the store and
\* leaves every other session as it was (nothing changes for no token or a
\* token not in the store); a token that was issued and is gone from the
\* store never comes back, and a lookup of it answers false.
LogoutDestroys ==
    [][/\ resp'.op = "logout" => sessions' = Without(sessions, {resp'.token})
       /\ \A t \in 1..MaxSessions :
            (t < next_token /\ t \notin DOMAIN sessions) => t \notin DOMAIN sessions'
       /\ (resp'.op = "check" /\ resp'.token \notin DOMAIN sessions) =>
            ~resp'.authenticated]_vars

\* A logout removed a session that had not expired (no session is past its
\* expiry before now > SESSION_DURATION) and another session is still stored.
LogoutDestroysWitness ==
    /\ resp.op = "logout"
    /\ resp.token # NoToken
    /\ resp.token < next_token
    /\ resp.token \notin DOMAIN sessions
    /\ now <= SESSION_DURATION
    /\ sessions # <<>>

----------------------------------------------------------------------------
(* Rate limiting *)

\* The responses of the handlers that asked the rate limiter (POST
\* /api/generate answers 401 before it asks), and the key they asked for.
Limited(r) == r.op = "login" \/ (r.op = "generate" /\ r.code # 401)
KeyOf(r) == IF r.op = "login" THEN LoginKey(r.client) ELSE GenerateKey(r.client)
\* The timestamps of a list that lie inside the window ending now.
InWindow(ts) == {i \in 1..Len(ts) : now - ts[i] < RATE_LIMIT_WINDOW}

\* C12: a call that finds RATE_LIMIT_REQUESTS admitted calls inside the
\* window (the timestamps stored are those of the admitted calls) is denied,
\* and a call that finds the window elapsed since every admitted call is
\* admitted.
DeniedThenAdmitted ==
    [][Limited(resp') =>
          LET ts == rate_limit_storage[KeyOf(resp')]
          IN /\ Cardinality(InWindow(ts)) >= RATE_LIMIT_REQUESTS => resp'.code = 429
             /\ InWindow(ts) = {} => resp'.code # 429]_vars

\* The eleventh call inside a window was denied: ten admitted calls are
\* stored, all inside the window.
DeniedThenAdmittedWitness ==
    /\ Limited(resp)
    /\ resp.code = 429
    /\ Len(rate_limit_storage[KeyOf(resp)]) = RATE_LIMIT_REQUESTS
    /\ Cardinality(InWindow(rate_limit_storage[KeyOf(resp)])) = RATE_LIMIT_REQUESTS

\* C13: no key ever holds more than RATE_LIMIT_REQUESTS timestamps; a call
\* is admitted exactly when fewer than RATE_LIMIT_REQUESTS timestamps are
\* left after pruning, and the key then holds the pruned list with now
\* appended when the call was admitted, the pruned list alone when not.
WindowBounded ==
    [][/\ \A k \in DOMAIN rate_limit_storage' :
            Len(rate_limit_storage'[k]) <= RATE_LIMIT_REQUESTS
       /\ Limited(resp') =>
            LET k == KeyOf(resp')
                kept == SelectSeq(rate_limit_storage[k],
                                  LAMBDA t : now - t < RATE_LIMIT_WINDOW)
                admitted == resp'.code # 429
            IN /\ admitted <=> Len(kept) < RATE_LIMIT_REQUESTS
               /\ rate_limit_storage'[k] =
                     IF admitted THEN Append(kept, now) ELSE kept]_vars

\* A call was admitted as the tenth of its window after older timestamps
\* had been pruned: the key is full and its oldest timestamp is not the
\* first the key ever held.
WindowBoundedWitness ==
    /\ Limited(resp)
    /\ resp.code # 429
    /\ Len(rate_limit_storage[KeyOf(resp)]) = RATE_LIMIT_REQUESTS
    /\ rate_limit_storage[KeyOf(resp)][1] > 0
    /\ rate_limit_storage[KeyOf(resp)][RATE_LIMIT_REQUESTS] = now

----------------------------------------------------------------------------
(* Sheet layout *)

\* The worker has computed the start rows and not yet ended.
LaidOut(j) == pc[j] \in {"L298", "L299", "L300", "L301"}

\* C15: for frames of a, b, c and d rows the four start rows are 0, a + 2,
\* (a + 2) + b + 1 and ((a + 2) + b + 1) + c + 1; frames of 3, 4, 0 and 2
\* rows start at 0, 5, 10 and 11.
StartRowOffsets ==
    \A j \in JobIds :
        LaidOut(j) =>
            LET a == loc[j].rows["bs"]
                b == loc[j].rows["is"]
                c == loc[j].rows["cf"]
                at == loc[j].startrow
            IN /\ at["bs"] = 0
               /\ at["is"] = a + 2
               /\ at["cf"] = (a + 2) + b + 1
               /\ at["se"] = ((a + 2) + b + 1) + c + 1
               /\ (a = 3 /\ b = 4 /\ c = 0 /\ loc[j].rows["se"] = 2) =>
                     (at["bs"] = 0 /\ at["is"] = 5 /\ at["cf"] = 10 /\ at["se"] = 11)

\* The start rows of frames of 3, 4, 0 and 2 rows have been computed.
StartRowOffsetsWitness ==
    \E j \in JobIds :
        /\ LaidOut(j)
        /\ loc[j].rows["bs"] = 3 /\ loc[j].rows["is"] = 4
        /\ loc[j].rows["cf"] = 0 /\ loc[j].rows["se"] = 2
        /\ loc[j].startrow["se"] = 11

----------------------------------------------------------------------------
(* The batch loop *)

\* The least number of batches of BATCH_SIZE that hold n filings.
CeilBatches(n) == CHOOSE m \in 0..n : m * BATCH_SIZE >= n /\ (m - 1) * BATCH_SIZE < n
Min(a, b) == IF a < b THEN a ELSE b
Increasing(seq) == \A i \in 1..(Len(seq) - 1) : seq[i] < seq[i + 1]

\* C16: a worker that found n > 0 filings plans ceil(n / BATCH_SIZE) batches
\* and starts at the first; the k-th batch it takes is the slice from
\* BATCH_SIZE * (k - 1) to min(BATCH_SIZE * k, n), which starts where the
\* batch before it ended and holds between 1 and BATCH_SIZE filings; each
\* batch ends with the batch index advanced by one and with the tables of
\* that batch alone appended, so that every list is in batch order; the
\* worker leaves the loop when it has taken ceil(n / BATCH_SIZE) batches, the
\* last of which ended at n.  Seven filings are taken as 5 and 2.
BatchPartition ==
    [][\A j \in JobIds :
          LET l == loc[j]
              m == loc'[j]
              k == l.batch_idx + 1
          IN /\ (pc[j] = "L187" /\ pc'[j] = "L210") =>
                   /\ m.total_filings > 0
                   /\ m.num_batches = CeilBatches(m.total_filings)
                   /\ m.batch_idx = 0
                   /\ m.total_filings = BATCH_SIZE + 2 => m.num_batches = 2
             /\ (pc[j] = "L210" /\ pc'[j] = "L215") =>
                   /\ m.start_idx = BATCH_SIZE * (k - 1)
                   /\ m.end_idx = Min(BATCH_SIZE * k, l.total_filings)
                   /\ m.start_idx = (IF k = 1 THEN 0 ELSE l.end_idx)
                   /\ m.end_idx - m.start_idx \in 1..BATCH_SIZE
                   /\ l.total_filings = BATCH_SIZE + 2 =>
                         m.end_idx - m.start_idx = (IF k = 1 THEN 5 ELSE 2)
             /\ (pc[j] = "L215" /\ pc'[j] # "L215") =>
                   /\ m.batch_idx = k
                   /\ \A kind \in Kinds :
                         /\ m.dfs[kind] \in {l.dfs[kind], Append(l.dfs[kind], k)}
                         /\ Increasing(m.dfs[kind])
                   /\ pc'[j] = "L210" => k < CeilBatches(l.total_filings)
                   /\ pc'[j] \in {"L257", "L262"} =>
                         /\ k = CeilBatches(l.total_filings)
                         /\ l.end_idx = l.total_filings]_vars

\* A worker that found seven filings has left the loop after two batches,
\* the second the slice 5..7, with the income statements of both in order.
BatchPartitionWitness ==
    \E j \in JobIds :
        /\ pc[j] = "L262"
        /\ loc[j].total_filings = BATCH_SIZE + 2
        /\ loc[j].batch_idx = 2
        /\ loc[j].start_idx = 5 /\ loc[j].end_idx = 7
        /\ loc[j].dfs["is"] = <<1, 2>>

\* The worker has a table of some kind, in its lists or in its frames.
HadData(l) == \E k \in Kinds : l.dfs[k] # <<>> \/ l.output[k] # <<>>
\* The step ends the worker of j, which had entered the batch loop.
EndsAfterLoop(j) == pc[j] \notin Ended /\ pc'[j] \in Ended /\ loc[j].num_batches > 0
ErrNoData == "Failed to extract any financial data from filings."

\* C14, as the claim states it, for the workers that end by returning (their
\* record was not evicted): a worker that entered the batch loop ends with
\* its job Failed with the no-extractable-data error when no batch yielded a
\* table, and Completed with a stored payload when some batch did.
ExtractionDecides ==
    [][\A j \in JobIds :
          (EndsAfterLoop(j) /\ pc'[j] = "done") =>
              /\ j \in DOMAIN jobs'
              /\ IF HadData(loc[j])
                 THEN /\ jobs'[j].status = "completed"
                      /\ Has(jobs'[j], "result")
                 ELSE /\ jobs'[j].status = "error"
                      /\ Get(jobs'[j], "error", PyNone) = ErrNoData]_vars

\* C14, amended: the worker leaves the loop for the failure of main.py:257
\* exactly when all four lists are empty.  A worker that entered the loop
\* and ends with its record in the registry has left it Failed with the
\* no-extractable-data error when no batch yielded a table; when some batch
\* did, Completed with the concatenated tables as payload, or Failed with
\* the unexpected-error message when the concatenation or the writing of
\* the workbook raised.  A worker whose record was evicted ends by the
\* KeyError and writes nothing.
ExtractionDecidesUnlessRaised ==
    [][\A j \in JobIds :
          /\ (pc[j] = "L215" /\ pc'[j] = "L257") => ~HadData(loc'[j])
          /\ (pc[j] = "L215" /\ pc'[j] = "L262") => HadData(loc'[j])
          /\ EndsAfterLoop(j) =>
                IF pc'[j] = "crashed"
                THEN j \notin DOMAIN jobs'
                ELSE /\ j \in DOMAIN jobs'
                     /\ IF HadData(loc[j])
                        THEN \/ /\ jobs'[j].status = "completed"
                                /\ Has(jobs'[j], "result")
                                /\ jobs'[j].result = loc[j].output
                                /\ ~Has(jobs'[j], "error")
                             \/ /\ jobs'[j].status = "error"
                                /\ Get(jobs'[j], "error", PyNone) = ErrUnexpected
                                /\ ~Has(jobs'[j], "result")
                        ELSE /\ jobs'[j].status = "error"
                             /\ Get(jobs'[j], "error", PyNone) = ErrNoData
                             /\ ~Has(jobs'[j], "result")]_vars

\* A job of seven filings whose second batch alone yielded a table, of one
\* kind, has ended Completed with that table as payload.
ExtractionDecidesWitness ==
    \E j \in JobIds :
        /\ pc[j] = "done"
        /\ j \in DOMAIN jobs
        /\ jobs[j].status = "completed"
        /\ Has(jobs[j], "result")
        /\ jobs[j].result["is"] = <<2>>
        /\ jobs[j].result["bs"] = <<>>

----------------------------------------------------------------------------
(* Eviction *)

\* C17: an admitted POST /api/generate leaves in the registry exactly the
\* jobs with now <= expires_at, each as it was, and the new job; no step
\* removes a job before now > expires_at, and a job that is Completed with
\* its payload stored keeps both up to its expires_at.
SweepExact ==
    [][/\ (resp'.op = "generate" /\ resp'.code = 200) =>
            LET gone == {id \in DOMAIN jobs : now > jobs[id].expires_at}
            IN /\ DOMAIN jobs' = (DOMAIN jobs \ gone) \cup {resp'.job_id}
               /\ \A id \in DOMAIN jobs \ gone : jobs'[id] = jobs[id]
       /\ \A id \in DOMAIN jobs :
            now' <= jobs[id].expires_at =>
               /\ id \in DOMAIN jobs'
               /\ (jobs[id].status = "completed" /\ Has(jobs[id], "result")) =>
                     /\ jobs'[id].status = "completed"
                     /\ Has(jobs'[id], "result")
                     /\ jobs'[id].result = jobs[id].result]_vars

\* A sweep ran at the very instant a Completed job expires at and left it
\* in the registry with its payload.
SweepExactWitness ==
    /\ resp.op = "generate"
    /\ resp.code = 200
    /\ \E id \in DOMAIN jobs :
          /\ id # resp.job_id
          /\ now = jobs[id].expires_at
          /\ jobs[id].status = "completed"
          /\ Has(jobs[id], "result")

----------------------------------------------------------------------------
(* Independence of the jobs *)

\* The worker of j is at a call that sends requests to the provider:
\* edgar.Company (main.py:178), get_filings (main.py:187), XBRLS.from_filings
\* (main.py:215).
Fetching(j) == pc[j] \in {"L178", "L187", "L215"}

\* C18: whenever a worker makes a fetch, the identity presented to the
\* provider is the one of its own job's requester, whatever the other
\* worker has done.
OwnIdentityPresented ==
    [][\A j \in JobIds :
          (Fetching(j) /\ pc'[j] # pc[j]) =>
              edgar_identity = Identity(loc[j].name, loc[j].email)]_vars

----------------------------------------------------------------------------
(* Frame of the rate limiter *)

\* The steps of the handlers that ask the rate limiter change the list of
\* their key to `kept`, with now appended when the call was admitted and as
\* it is when denied, and no other key; every other step leaves
\* rate_limit_storage as it was.
RateFrame(keep(_)) ==
    IF Limited(resp')
    THEN LET k == KeyOf(resp')
             kept == SelectSeq(rate_limit_storage[k], keep)
         IN /\ rate_limit_storage'[k] =
                  IF resp'.code = 429 THEN kept ELSE Append(kept, now)
            /\ \A o \in DOMAIN rate_limit_storage \ {k} :
                  rate_limit_storage'[o] = rate_limit_storage[o]
            /\ DOMAIN rate_limit_storage' = DOMAIN rate_limit_storage
    ELSE rate_limit_storage' = rate_limit_storage

\* C21, as the claim states it: a call drops exactly the timestamps older
\* than now - window (t < now - window) and keeps every other one.
PrunesOlderOnly ==
    [][RateFrame(LAMBDA t : ~(t < now - RATE_LIMIT_WINDOW))]_vars

\* C21, amended: a call drops exactly the timestamps that are a full window
\* old or older (t <= now - window) and keeps every other one, in their
\* order; a denied call leaves the kept timestamps alone and records none,
\* an admitted call appends now; the list of no other key changes, and no
\* step that does not ask the rate limiter changes any list.
PrunesFullWindowOld ==
    [][RateFrame(LAMBDA t : ~(t <= now - RATE_LIMIT_WINDOW))]_vars

\* A generation request was admitted exactly one window after the burst:
\* the nine timestamps of the burst, now exactly one window old, are gone
\* from its key, and the login key, not asked, still holds its old timestamp.
PrunesFullWindowOldWitness ==
    /\ resp.op = "generate"
    /\ resp.code = 200
    /\ BurstIds \subseteq DOMAIN jobs
    /\ now = RATE_LIMIT_WINDOW
    /\ rate_limit_storage[GenerateKey(resp.client)] = <<now>>
    /\ rate_limit_storage[LoginKey(resp.client)] = <<0>>

----------------------------------------------------------------------------
(* Fault tolerance of the batch loop *)

\* The step ends a batch of the worker of j.
BatchEnds(j) == pc[j] = "L215" /\ pc'[j] # "L215"

\* C22: when a batch ends, every kind whose extraction did not log an error
\* has its table of this batch appended, and every kind that logged one, or
\* every kind when the batch could not be parsed, has its list as before;
\* whatever failed, the job record is not written, the worker does not go
\* to the exception handler, and it goes on with the next batch when there
\* is one, else to the check after the loop.
KindFailureIsLocal ==
    [][\A j \in JobIds :
          BatchEnds(j) =>
              LET l == loc[j]
                  m == loc'[j]
                  b == l.batch_idx + 1
              IN /\ \A k \in Kinds :
                       m.dfs[k] = IF m.batch_log.parsed /\ k \notin m.batch_log.errors
                                  THEN Append(l.dfs[k], b)
                                  ELSE l.dfs[k]
                 /\ ~m.batch_log.parsed => m.batch_log.errors = {}
                 /\ jobs' = jobs
                 /\ pc'[j] \notin {"L307", "L308", "done", "crashed"}
                 /\ b < l.num_batches <=> pc'[j] = "L210"
                 /\ b >= l.num_batches <=> pc'[j] \in {"L257", "L262"}]_vars

\* The second of two batches logged the errors of three extractions and
\* appended the table of the fourth, after a first batch that appended none.
KindFailureIsLocalWitness ==
    \E j \in JobIds :
        /\ pc[j] = "L262"
        /\ loc[j].num_batches = 2
        /\ loc[j].batch_log = [parsed |-> TRUE, errors |-> {"bs", "cf", "se"}]
        /\ loc[j].dfs["is"] = <<2>>
        /\ loc[j].dfs["bs"] = <<>>

----------------------------------------------------------------------------
(* Failures before the first batch *)

\* The worker of j has found that the ticker does not resolve (main.py:179)
\* or that there is no filing (main.py:191).
FailedEarly(j) == pc[j] \in {"L180", "L181", "L192", "L193"}
EarlyErrors(j) == {ErrInvalidTicker(loc[j].ticker), ErrNoFilings(loc[j].ticker)}

\* C23: a worker that found the ticker unresolvable or no filing takes no
\* batch and makes no parse call; the step that takes its job from
\* Processing to Failed leaves the record with its user-facing error
\* message, and the worker ends with the record Failed with that message;
\* no step of the worker is an HTTP response.
EarlyFailureAborts ==
    [][\A j \in JobIds :
          FailedEarly(j) =>
              /\ pc'[j] \notin {"L210", "L215"}
              /\ loc[j].batch_idx = 0 /\ loc[j].num_batches = 0
              /\ pc'[j] # pc[j] =>
                    /\ resp' = NoResp
                    /\ j \in DOMAIN jobs'
                    /\ jobs'[j].status = "error"
                    /\ Get(jobs'[j], "error", PyNone) \in EarlyErrors(j)
                    /\ pc[j] \in {"L180", "L192"} => jobs[j].status = "processing"]_vars

----------------------------------------------------------------------------
(* Progress messages *)

\* msg is a progress message that contains "k/n", of a job of t filings.
ContainsProgress(msg, k, n, t) ==
    \E a \in 1..t, b \in 1..t :
        msg = "Processing batch " \o ToString(k) \o "/" \o ToString(n) \o " ("
              \o ToString(a) \o "-" \o ToString(b) \o " of " \o ToString(t)
              \o " filings)..."

\* The worker of j has ended its last batch and not yet written the
\* message of the concatenation (main.py:262).
LoopDone(j) == pc[j] \in {"L257", "L258", "L262"}

\* C24: while the worker processes batch k of n the record holds the
\* message of that batch, which contains "k/n" (one message per batch, in
\* batch order, each in the place of the one before), and after the last
\* batch, until the message of the concatenation is written, the one that
\* contains "n/n"; a poll answered 200 returns the message the record holds.
ProgressReported ==
    /\ \A j \in JobIds \cap DOMAIN jobs :
          /\ pc[j] = "L215" =>
                ContainsProgress(jobs[j].message, loc[j].batch_idx + 1,
                                 loc[j].num_batches, loc[j].total_filings)
          /\ LoopDone(j) =>
                ContainsProgress(jobs[j].message, loc[j].num_batches,
                                 loc[j].num_batches, loc[j].total_filings)
    /\ (resp.op = "status" /\ resp.code = 200) =>
          /\ resp.job_id \in DOMAIN jobs
          /\ resp.message = jobs[resp.job_id].message

\* A poll of a job of two batches, made after the second batch and before
\* the concatenation, returned a message containing "2/2".
ProgressReportedWitness ==
    /\ resp.op = "status"
    /\ resp.code = 200
    /\ resp.job_id \in JobIds
    /\ pc[resp.job_id] = "L262"
    /\ loc[resp.job_id].num_batches = 2
    /\ ContainsProgress(resp.message, 2, 2, loc[resp.job_id].total_filings)

----------------------------------------------------------------------------
(* Rendered rows *)

\* Kind a is written before kind b.
Before(a, b) == Position(a) < Position(b)

\* C25: the rows written for the four frames are pairwise disjoint and in
\* the order of the kinds; the balance sheet, when not empty, occupies its
\* header row 0 and its data rows, every later frame that is not empty its
\* data rows alone from its start row on, an empty frame nothing; and no
\* frame's rows reach the start row of a later frame.
RenderedDisjoint ==
    \A j \in JobIds :
        LaidOut(j) =>
            LET n == loc[j].rows
                at == loc[j].startrow
                on == loc[j].sheet
            IN /\ \A a, b \in Kinds : a # b => on[a] \cap on[b] = {}
               /\ \A a, b \in Kinds :
                     Before(a, b) =>
                        /\ \A x \in on[a], y \in on[b] : x < y
                        /\ \A x \in on[a] : x < at[b]
               /\ n["bs"] > 0 => on["bs"] = 0..n["bs"]
               /\ \A k \in Kinds \ {"bs"} :
                     n[k] > 0 => /\ Cardinality(on[k]) = n[k]
                                 /\ \A x \in on[k] : x >= at[k] /\ x < at[k] + n[k]
               /\ \A k \in Kinds : n[k] = 0 => on[k] = {}

\* Frames of 3, 4, 0 and 2 rows have been written: rows 0..3, 5..8, none
\* and 11..12.
RenderedDisjointWitness ==
    \E j \in JobIds :
        /\ LaidOut(j)
        /\ loc[j].rows = [k \in Kinds |->
                             CASE k = "bs" -> 3 [] k = "is" -> 4
                               [] k = "cf" -> 0 [] k = "se" -> 2]
        /\ loc[j].sheet["bs"] = 0..3
        /\ loc[j].sheet["is"] = 5..8
        /\ loc[j].sheet["cf"] = {}
        /\ loc[j].sheet["se"] = 11..12

----------------------------------------------------------------------------
(* The session check and the generate budget *)

\* Some session is valid now.
SomeValidSession == \E t \in DOMAIN sessions : verify_session(t)

\* C26: a POST /api/generate answered 401 leaves every window as it was, and
\* a generate window changes only in a step that answers a POST
\* /api/generate of a client holding a valid session with 200 or 429.
UnauthenticatedSpendsNothing ==
    [][/\ (resp'.op = "generate" /\ resp'.code = 401) =>
              rate_limit_storage' = rate_limit_storage
       /\ \A ip \in Clients :
              rate_limit_storage'[GenerateKey(ip)] # rate_limit_storage[GenerateKey(ip)] =>
                 /\ resp'.op = "generate"
                 /\ resp'.code \in {200, 429}
                 /\ resp'.client = ip
                 /\ SomeValidSession]_vars

\* A request without a valid session has been answered 401 at a time when
\* the client's generate window would have admitted it.
UnauthenticatedSpendsNothingWitness ==
    /\ resp.op = "generate"
    /\ resp.code = 401
    /\ ~SomeValidSession
    /\ \E ip \in Clients : check_rate_limit(GenerateKey(ip))

----------------------------------------------------------------------------
(* Retrieval past expires_at *)

\* What the two GET handlers have answered an authenticated request depends
\* on the registry alone.
AnsweredFromRegistry ==
    /\ (resp.op = "status" /\ resp.code # 401) =>
          /\ resp.code = 200 <=> resp.job_id \in DOMAIN jobs
          /\ resp.code = 404 <=> resp.job_id \notin DOMAIN jobs
          /\ resp.code = 200 => resp.status = jobs[resp.job_id].status
    /\ (resp.op = "download" /\ resp.code # 401) =>
          /\ resp.code = 404 <=> resp.job_id \notin DOMAIN jobs
          /\ resp.code = 200 <=> /\ resp.job_id \in DOMAIN jobs
                                 /\ jobs[resp.job_id].status = "completed"
                                 /\ Has(jobs[resp.job_id], "result")
          /\ resp.code = 200 => resp.body = jobs[resp.job_id].result

\* C27: the status and download handlers answer from the registry whatever
\* the job's expires_at, so a job past its expires_at is still answered 200
\* with its status and, once completed, its payload; and a step that removes
\* a job from the registry is an admitted POST /api/generate.
RetrievableUntilSweep ==
    /\ []AnsweredFromRegistry
    /\ [][~(DOMAIN jobs \subseteq DOMAIN jobs') =>
             (resp'.op = "generate" /\ resp'.code = 200)]_vars

\* The payload of a completed job has been served after its expires_at.
RetrievableUntilSweepWitness ==
    /\ resp.op = "download"
    /\ resp.code = 200
    /\ now > jobs[resp.job_id].expires_at
====
